---- MODULE Spec2Model ----
(***************************************************************************)
(* Model of the metric engine of eval.py: the APDataObject accumulator     *)
(* (push, add_gt_positives, is_empty, get_ap), the per-image greedy        *)
(* matching of prep_metrics, the evaluate loop and the calc_map reduction. *)
(*                                                                         *)
(* Numbers.  Scores are small integers (only their order matters to the    *)
(* sort).  IoU values and thresholds are integers in hundredths.           *)
(* Precisions, recalls, AP and mAP are exact rationals <<num, den>>; the   *)
(* comparisons the code makes between recalls k/n and bars x/100 are       *)
(* decided by cross multiplication.                                        *)
(***************************************************************************)
EXTENDS Integers, Sequences, FiniteSets, TLC

VARIABLES
    obj,           \* SpecAP: the APDataObject under test
    ap_ret,        \* SpecAP: the value the last get_ap returned (NoValue: none)
    ap_data,       \* the accumulator grid ap_data[iou_type][iouIdx][_class]
    img,           \* SpecMatch, SpecMalformed: the arguments of the prep_metrics call
    log,           \* history: per bucket, one entry per prediction the call handled
    img_count,     \* Spec: images the data loader has yielded so far
    gt_seen,       \* history: per class, normal ground truth over the yielded images
    conf_ordered,  \* history: per class, no image listed a lower score first
    crowd_seen,    \* history: per class, some image held a crowd instance of it
    all_maps,      \* the result of calc_map
    pc             \* "ap", "call", "returned", "raised", "loop", "done"

vars == <<obj, ap_ret, ap_data, img, log, img_count, gt_seen,
          conf_ordered, crowd_seen, all_maps, pc>>

(***************************************************************************)
(* Bounds of the model.                                                    *)
(***************************************************************************)
MaxPoints == 4
MaxGtPos == 4
MaxScore == 2
NumClasses == 2
MaxPreds == 2
MaxGT == 2
MaxImages == 2
RunMaxPreds == 2
RunMaxGT == 1

Scores == 1..MaxScore
Classes == 0..(NumClasses - 1)
IouTypes == {"box", "mask"}

(***************************************************************************)
(* Exact rationals.                                                        *)
(***************************************************************************)
RECURSIVE Gcd(_, _)
Gcd(a, b) == IF b = 0 THEN a ELSE Gcd(b, a % b)

Rat(n, d) == LET g == Gcd(n, d) IN IF n = 0 THEN <<0, 1>> ELSE <<n \div g, d \div g>>
RAdd(a, b) == Rat(a[1] * b[2] + b[1] * a[2], a[2] * b[2])
RDivInt(a, k) == Rat(a[1], a[2] * k)
RMulInt(a, k) == Rat(a[1] * k, a[2])
RGt(a, b) == a[1] * b[2] > b[1] * a[2]
RLeq(a, b) == a[1] * b[2] <= b[1] * a[2]
Zero == <<0, 1>>
One == <<1, 1>>

RECURSIVE RSum(_)
RSum(s) == IF s = <<>> THEN Zero ELSE RAdd(Head(s), RSum(Tail(s)))

(***************************************************************************)
(* APDataObject                                                            *)
(***************************************************************************)
APDataObject == [data_points |-> <<>>, num_gt_positives |-> 0]

push(o, score, is_true) ==
    [o EXCEPT !.data_points = Append(@, <<score, is_true>>)]

add_gt_positives(o, num_positives) ==
    [o EXCEPT !.num_gt_positives = @ + num_positives]

is_empty(o) == Len(o.data_points) = 0 /\ o.num_gt_positives = 0

\* list.sort(key=lambda x: -x[0]): a stable sort, descending by score.
RECURSIVE InsertDesc(_, _)
InsertDesc(sorted, d) ==
    IF sorted = <<>> THEN <<d>>
    ELSE IF Head(sorted)[1] >= d[1]
         THEN <<Head(sorted)>> \o InsertDesc(Tail(sorted), d)
         ELSE <<d>> \o sorted

\* Mutant of SortDesc: the sort key loses its sign (ascending by score).
RECURSIVE InsertAsc(_, _)
InsertAsc(sorted, d) ==
    IF sorted = <<>> THEN <<d>>
    ELSE IF Head(sorted)[1] <= d[1]
         THEN <<Head(sorted)>> \o InsertAsc(Tail(sorted), d)
         ELSE <<d>> \o sorted

RECURSIVE SortAsc(_)
SortAsc(s) ==
    IF s = <<>> THEN <<>>
    ELSE InsertAsc(SortAsc(SubSeq(s, 1, Len(s) - 1)), s[Len(s)])

RECURSIVE SortDesc(_)
SortDesc(s) ==
    IF s = <<>> THEN <<>>
    ELSE InsertDesc(SortDesc(SubSeq(s, 1, Len(s) - 1)), s[Len(s)])

\* The loop over the sorted records: after each record, precision =
\* num_true / (num_true + num_false) and recall = num_true / num_gt_positives
\* are appended.  Returns <<precisions, recalls>>.
RECURSIVE CurveLoop(_, _, _, _, _, _)
CurveLoop(pts, n, k, num_true, precisions, recalls) ==
    IF k > Len(pts) THEN <<precisions, recalls>>
    ELSE LET t == IF pts[k][2] THEN num_true + 1 ELSE num_true
         IN CurveLoop(pts, n, k + 1, t,
                      Append(precisions, <<t, k>>), Append(recalls, <<t, n>>))

\* for i in range(len - 1, 0, -1): if p[i] > p[i-1]: p[i-1] = p[i]
\* (i is the code's 0-based index of the later element; it is p[i + 1] here).
RECURSIVE Smooth(_, _)
Smooth(p, i) ==
    IF i <= 0 THEN p
    ELSE Smooth(IF RGt(p[i + 1], p[i]) THEN [p EXCEPT ![i] = p[i + 1]] ELSE p, i - 1)

\* np.searchsorted(recalls, x / 100, side='left') on the ascending recalls:
\* the number of recalls strictly below the bar (the 0-based insertion index).
SearchSortedLeft(recalls, x) ==
    Cardinality({k \in 1..Len(recalls) : recalls[k][1] * 100 < x * recalls[k][2]})

NumBars == 101

\* The bars whose precision_idx is k - 1, that is, the bars that read the
\* k-th precision: counted bar by bar.
BarsReadingByBar(recalls, k) ==
    Cardinality({x \in 0..(NumBars - 1) : SearchSortedLeft(recalls, x) = k - 1})

Min(a, b) == IF a < b THEN a ELSE b

\* Mutant of LastBarUpTo: side='right', the last bar strictly below recalls[k].
LastBarBelow(recalls, k) ==
    IF k = 0 THEN -1
    ELSE Min(NumBars - 1, (100 * recalls[k][1] - 1) \div recalls[k][2])

\* The last bar x / 100 that is at most recalls[k] (-1 before the first recall).
LastBarUpTo(recalls, k) ==
    IF k = 0 THEN -1
    ELSE Min(NumBars - 1, (100 * recalls[k][1]) \div recalls[k][2])

\* The same count in closed form: the recalls ascend, so the bars with
\* insertion index k - 1 are those above recalls[k - 1] and at most recalls[k].
\* BarsReadingAgrees checks the two counts against each other.
BarsReading(recalls, k) == LastBarUpTo(recalls, k) - LastBarUpTo(recalls, k - 1)

RECURSIVE Lcm1(_)
Lcm1(k) == IF k <= 1 THEN 1 ELSE LET l == Lcm1(k - 1) IN (l * k) \div Gcd(l, k)

\* sum(y_range) over the common denominator D.  y_range[bar_idx] is
\* precisions[precision_idx] when precision_idx < len(precisions) and stays 0
\* otherwise, so the bars that read position k contribute precisions[k] each.
RECURSIVE SumBars(_, _, _, _)
SumBars(precisions, recalls, k, D) ==
    IF k = 0 THEN 0
    ELSE BarsReading(recalls, k) * ((precisions[k][1] * D) \div precisions[k][2])
         + SumBars(precisions, recalls, k - 1, D)

\* The body of get_ap after the early return: sort, precision-recall curve,
\* smoothing, 101 bars, mean.
integrate(o) ==
    LET pts == SortDesc(o.data_points)
        curve == CurveLoop(pts, o.num_gt_positives, 1, 0, <<>>, <<>>)
        precisions == Smooth(curve[1], Len(pts) - 1)
        D == Lcm1(Len(pts))
    IN Rat(SumBars(precisions, curve[2], Len(pts), D), D * NumBars)

\* Mutant of get_ap_value: a bucket without ground truth scores 1.
get_ap_value_vacuous(o) ==
    IF o.num_gt_positives = 0 THEN One ELSE integrate(o)

\* get_ap: the returned value.
get_ap_value(o) ==
    IF o.num_gt_positives = 0 THEN Zero ELSE integrate(o)

\* get_ap: the accumulator it leaves (sorted in place unless it returned early).
get_ap_object(o) ==
    IF o.num_gt_positives = 0 THEN o
    ELSE [o EXCEPT !.data_points = SortDesc(@)]

NoValue == <<-1, 1>>

(***************************************************************************)
(* prep_metrics                                                            *)
(*                                                                         *)
(* An image is the argument list of one call: classes_p and confs_p, the   *)
(* ground-truth classes (gt[:, 4]), num_crowd, and the overlaps the IoU    *)
(* provider returns: overlap[i][g] = <<box IoU, mask IoU>> of prediction i *)
(* with entry g of the ground-truth list, in the role (normal or crowd)    *)
(* the split gives that entry.                                             *)
(***************************************************************************)
iou_thresholds == <<50, 55, 60, 65, 70, 75, 80, 85, 90, 95>>
ThresholdIdx == 1..Len(iou_thresholds)

Max(a, b) == IF a > b THEN a ELSE b

\* split = lambda x: (x[-num_crowd:], x[:-num_crowd]); a slice past the start
\* of the list is clamped to the list.
NumNormal(im) ==
    IF im.num_crowd > 0 THEN Max(Len(im.gt_classes) - im.num_crowd, 0)
    ELSE Len(im.gt_classes)

gt_classes(im) == SubSeq(im.gt_classes, 1, NumNormal(im))

crowd_classes(im) == SubSeq(im.gt_classes, NumNormal(im) + 1, Len(im.gt_classes))

TypeIdx(iou_type) == IF iou_type = "box" THEN 1 ELSE 2

\* iou_func(i, j): the cache of the normal instances.
iou_func(im, iou_type, i, j) == im.overlap[i][j][TypeIdx(iou_type)]

\* crowd_func(i, j): the cache of the crowd instances.
crowd_func(im, iou_type, i, j) == im.overlap[i][NumNormal(im) + j][TypeIdx(iou_type)]

\* set(classes_p + gt_classes)
ClassesPresent(im) ==
    {im.classes_p[i] : i \in 1..Len(im.classes_p)}
        \cup {gt_classes(im)[j] : j \in 1..NumNormal(im)}

\* gt_classes.count(_class)
num_gt_per_class(im, c) == Cardinality({j \in 1..NumNormal(im) : gt_classes(im)[j] = c})

\* max_iou_found = iou_threshold
InitialBest(iou_threshold) == iou_threshold

\* Mutant of Better: the comparison is not strict.
BetterOrEqual(iou, max_iou_found) == iou >= max_iou_found

\* if iou > max_iou_found
Better(iou, max_iou_found) == iou > max_iou_found

\* The loop over the ground truth for prediction i: max_match_idx at its end
\* (1-based; 0 stands for the code's -1).
RECURSIVE ScanGt(_, _, _, _, _, _, _, _)
ScanGt(im, iou_type, c, i, gt_used, j, max_iou_found, max_match_idx) ==
    IF j > NumNormal(im) THEN max_match_idx
    ELSE IF gt_used[j] \/ gt_classes(im)[j] # c
         THEN ScanGt(im, iou_type, c, i, gt_used, j + 1, max_iou_found, max_match_idx)
         ELSE LET iou == iou_func(im, iou_type, i, j)
              IN IF Better(iou, max_iou_found)
                 THEN ScanGt(im, iou_type, c, i, gt_used, j + 1, iou, j)
                 ELSE ScanGt(im, iou_type, c, i, gt_used, j + 1,
                             max_iou_found, max_match_idx)

\* Mutant of MarkUsed: the matched instance is not marked.
MarkUsedNever(gt_used, max_match_idx) == gt_used

\* gt_used[max_match_idx] = True
MarkUsed(gt_used, max_match_idx) == [gt_used EXCEPT ![max_match_idx] = TRUE]

\* Mutant of MatchedCrowd: the class of the crowd instance is not compared.
MatchedCrowdAnyClass(im, iou_type, iou_threshold, c, i) ==
    /\ im.num_crowd > 0
    /\ \E j \in 1..Len(crowd_classes(im)) :
          crowd_func(im, iou_type, i, j) > iou_threshold

\* The crowd loop: matched_crowd at its end.
MatchedCrowd(im, iou_type, iou_threshold, c, i) ==
    /\ im.num_crowd > 0
    /\ \E j \in 1..Len(crowd_classes(im)) :
          /\ crowd_classes(im)[j] = c
          /\ crowd_func(im, iou_type, i, j) > iou_threshold

\* The loop over the predictions for one (class, threshold, type): st holds
\* gt_used, ap_obj and the history of the predictions handled so far.
RECURSIVE PredLoop(_, _, _, _, _, _)
PredLoop(im, iou_type, iou_threshold, c, i, st) ==
    IF i > Len(im.classes_p) THEN st
    ELSE IF im.classes_p[i] # c
         THEN PredLoop(im, iou_type, iou_threshold, c, i + 1, st)
         ELSE
           LET max_match_idx ==
                   ScanGt(im, iou_type, c, i, st.gt_used, 1,
                          InitialBest(iou_threshold), 0)
               entry(outcome) == [i |-> i, gt_used |-> st.gt_used,
                                  match |-> max_match_idx, outcome |-> outcome]
               next ==
                   IF max_match_idx >= 1
                   THEN [gt_used |-> MarkUsed(st.gt_used, max_match_idx),
                         ap_obj |-> push(st.ap_obj, im.confs_p[i], TRUE),
                         log |-> Append(st.log, entry("tp"))]
                   ELSE IF MatchedCrowd(im, iou_type, iou_threshold, c, i)
                        THEN [st EXCEPT !.log = Append(@, entry("crowd"))]
                        ELSE [gt_used |-> st.gt_used,
                              ap_obj |-> push(st.ap_obj, im.confs_p[i], FALSE),
                              log |-> Append(st.log, entry("fp"))]
           IN PredLoop(im, iou_type, iou_threshold, c, i + 1, next)

\* One pass of the innermost "for iou_type ..." body on accumulator ap_obj.
Bucket(im, iou_type, iouIdx, c, ap_obj) ==
    PredLoop(im, iou_type, iou_thresholds[iouIdx], c, 1,
             [gt_used |-> [j \in 1..NumNormal(im) |-> FALSE],
              ap_obj |-> add_gt_positives(ap_obj, num_gt_per_class(im, c)),
              log |-> <<>>])

\* The loops over classes, thresholds and types: the end state of every
\* bucket's prediction loop (classes absent from the image are not visited).
Buckets(apd, im) ==
    [iou_type \in IouTypes |-> [iouIdx \in ThresholdIdx |-> [c \in Classes |->
        IF c \in ClassesPresent(im)
        THEN Bucket(im, iou_type, iouIdx, c, apd[iou_type][iouIdx][c])
        ELSE [gt_used |-> <<>>, ap_obj |-> apd[iou_type][iouIdx][c], log |-> <<>>]]]]

GridOf(buckets, field) ==
    [iou_type \in IouTypes |-> [iouIdx \in ThresholdIdx |-> [c \in Classes |->
        buckets[iou_type][iouIdx][c][field]]]]

\* The grid after prep_metrics(ap_data, ...).
prep_metrics(apd, im) == GridOf(Buckets(apd, im), "ap_obj")

\* ap_data as evaluate builds it.
NewApData ==
    [iou_type \in IouTypes |-> [iouIdx \in ThresholdIdx |-> [c \in Classes |->
        APDataObject]]]

(***************************************************************************)
(* Inputs.                                                                 *)
(***************************************************************************)
Overlaps == {<<0, 0>>, <<55, 90>>, <<90, 55>>}

ImagesOf(P, G, crowds) ==
    [classes_p : [1..P -> Classes], confs_p : [1..P -> Scores],
     gt_classes : [1..G -> Classes], num_crowd : crowds,
     overlap : [1..P -> [1..G -> Overlaps]]]

\* Well-formed images: num_crowd is at most the length of the list.
Images(maxP, maxG) ==
    UNION {ImagesOf(P, G, 0..G) : P \in 0..maxP, G \in 0..maxG}

\* Calls whose num_crowd exceeds the length of the ground-truth list.
MalformedImages(maxP, maxG) ==
    UNION {ImagesOf(P, G, {G + 1}) : P \in 0..maxP, G \in 0..maxG}

NoHistory ==
    /\ img_count = 0 /\ gt_seen = <<>> /\ conf_ordered = <<>>
    /\ crowd_seen = <<>> /\ all_maps = <<>>

NoObject == obj = APDataObject /\ ap_ret = NoValue

(***************************************************************************)
(* SpecAP: one APDataObject driven through its operations.                 *)
(***************************************************************************)
InitAP ==
    /\ NoObject
    /\ ap_data = <<>> /\ img = <<>> /\ log = <<>> /\ pc = "ap"
    /\ NoHistory

Push ==
    /\ pc = "ap"
    /\ Len(obj.data_points) < MaxPoints
    /\ \E score \in Scores, is_true \in BOOLEAN :
          obj' = push(obj, score, is_true)
    /\ ap_ret' = NoValue
    /\ UNCHANGED <<ap_data, img, log, img_count, gt_seen, conf_ordered,
                   crowd_seen, all_maps, pc>>

AddGtPositives ==
    /\ pc = "ap"
    /\ \E n \in 0..MaxGtPos :
          /\ obj.num_gt_positives + n <= MaxGtPos
          /\ obj' = add_gt_positives(obj, n)
    /\ ap_ret' = NoValue
    /\ UNCHANGED <<ap_data, img, log, img_count, gt_seen, conf_ordered,
                   crowd_seen, all_maps, pc>>

GetAP ==
    /\ pc = "ap"
    /\ ap_ret' = get_ap_value(obj)
    /\ obj' = get_ap_object(obj)
    /\ UNCHANGED <<ap_data, img, log, img_count, gt_seen, conf_ordered,
                   crowd_seen, all_maps, pc>>

\* The closed form of the bar count is the bar-by-bar count of the code, on
\* the recall list of every accumulator with ground truth.
BarsReadingAgrees ==
    obj.num_gt_positives > 0 =>
        LET recalls == CurveLoop(SortDesc(obj.data_points), obj.num_gt_positives,
                                 1, 0, <<>>, <<>>)[2]
        IN \A k \in 1..Len(recalls) :
              BarsReading(recalls, k) = BarsReadingByBar(recalls, k)

NextAP == Push \/ AddGtPositives \/ GetAP

SpecAP == InitAP /\ [][NextAP]_vars

(***************************************************************************)
(* SpecMatch: one call of prep_metrics on a fresh grid.                    *)
(***************************************************************************)
InitMatch ==
    /\ NoObject
    /\ ap_data = NewApData
    /\ img \in Images(MaxPreds, MaxGT)
    /\ log = <<>> /\ pc = "call"
    /\ NoHistory

PrepMetricsCall ==
    /\ pc = "call"
    /\ LET buckets == Buckets(ap_data, img)
       IN /\ ap_data' = GridOf(buckets, "ap_obj")
          /\ log' = GridOf(buckets, "log")
    /\ pc' = "returned"
    /\ UNCHANGED <<obj, ap_ret, img, img_count, gt_seen, conf_ordered,
                   crowd_seen, all_maps>>

NextMatch == PrepMetricsCall

SpecMatch == InitMatch /\ [][NextMatch]_vars

(***************************************************************************)
(* SpecMalformed: one call of prep_metrics with num_crowd past the list.   *)
(***************************************************************************)
InitMalformed ==
    /\ NoObject
    /\ ap_data = NewApData
    /\ img \in MalformedImages(MaxPreds, MaxGT)
    /\ log = <<>> /\ pc = "call"
    /\ NoHistory

SpecMalformed == InitMalformed /\ [][NextMatch]_vars

(***************************************************************************)
(* calc_map                                                                *)
(***************************************************************************)
\* aps[iou_idx][iou_type] after the loop over the classes 0 .. c.
RECURSIVE ApsUpTo(_, _, _, _)
ApsUpTo(apd, iou_type, iou_idx, c) ==
    IF c < 0 THEN <<>>
    ELSE LET ap_obj == apd[iou_type][iou_idx][c]
             before == ApsUpTo(apd, iou_type, iou_idx, c - 1)
         IN IF ~is_empty(ap_obj) THEN Append(before, get_ap_value(ap_obj))
            ELSE before

Aps(apd, iou_type, iou_idx) == ApsUpTo(apd, iou_type, iou_idx, NumClasses - 1)

\* mAP = sum(aps) / len(aps) * 100 if len(aps) > 0 else 0
MeanAP(aps) ==
    IF Len(aps) > 0 THEN RMulInt(RDivInt(RSum(aps), Len(aps)), 100) ELSE Zero

\* int(threshold * 100) for the thresholds x / 100 of the grid, evaluated in
\* double precision: 0.55 * 100 is 55.00000000000001 and truncates to 55, the
\* other nine products are exact.
ThresholdKey ==
    [x \in {50, 55, 60, 65, 70, 75, 80, 85, 90, 95} |->
        CASE x = 50 -> 50 [] x = 55 -> 55 [] x = 60 -> 60 [] x = 65 -> 65
          [] x = 70 -> 70 [] x = 75 -> 75 [] x = 80 -> 80 [] x = 85 -> 85
          [] x = 90 -> 90 [] x = 95 -> 95]

\* The numbered entries of all_maps[iou_type] after the first i thresholds.
RECURSIVE ThresholdMaps(_, _, _)
ThresholdMaps(apd, iou_type, i) ==
    IF i = 0 THEN <<>>
    ELSE (ThresholdKey[iou_thresholds[i]] :> MeanAP(Aps(apd, iou_type, i)))
            @@ ThresholdMaps(apd, iou_type, i - 1)

RECURSIVE SumValues(_, _)
SumValues(f, keys) ==
    IF keys = {} THEN Zero
    ELSE LET k == CHOOSE k \in keys : TRUE
         IN RAdd(f[k], SumValues(f, keys \ {k}))

\* Mutant of OverallMap: the divisor counts the entry 'all' too.
OverallMapAllKeys(by_threshold) ==
    RDivInt(RAdd(Zero, SumValues(by_threshold, DOMAIN by_threshold)),
            1 + Cardinality(DOMAIN by_threshold))

\* sum(values) / (len(values) - 1): the values are the 0 stored under 'all'
\* and the numbered entries.
OverallMap(by_threshold) ==
    RDivInt(RAdd(Zero, SumValues(by_threshold, DOMAIN by_threshold)),
            (1 + Cardinality(DOMAIN by_threshold)) - 1)

\* all_maps: per type, the entry 'all' and the numbered entries.
calc_map(apd) ==
    [iou_type \in IouTypes |->
        LET by_threshold == ThresholdMaps(apd, iou_type, Len(iou_thresholds))
        IN [all |-> OverallMap(by_threshold), by_threshold |-> by_threshold]]

\* The grid calc_map leaves: get_ap sorts the buckets it is called on.
calc_map_grid(apd) ==
    [iou_type \in IouTypes |-> [iouIdx \in ThresholdIdx |-> [c \in Classes |->
        IF ~is_empty(apd[iou_type][iouIdx][c])
        THEN get_ap_object(apd[iou_type][iouIdx][c])
        ELSE apd[iou_type][iouIdx][c]]]]

(***************************************************************************)
(* Spec: evaluate, the loop over the data loader and then calc_map.        *)
(***************************************************************************)
\* The images of the run show instances of one class each.
OneClass(im) ==
    \E c \in Classes :
        /\ \A i \in 1..Len(im.classes_p) : im.classes_p[i] = c
        /\ \A g \in 1..Len(im.gt_classes) : im.gt_classes[g] = c

RunImages == {im \in Images(RunMaxPreds, RunMaxGT) : OneClass(im)}

ConfOrdered(im, c) ==
    \A i1, i2 \in 1..Len(im.classes_p) :
        (i1 < i2 /\ im.classes_p[i1] = c /\ im.classes_p[i2] = c)
            => im.confs_p[i1] >= im.confs_p[i2]

HasCrowd(im, c) ==
    \E j \in 1..Len(crowd_classes(im)) : crowd_classes(im)[j] = c

Init ==
    /\ NoObject
    /\ ap_data = NewApData
    /\ img = <<>> /\ log = <<>> /\ pc = "loop"
    /\ img_count = 0
    /\ gt_seen = [c \in Classes |-> 0]
    /\ conf_ordered = [c \in Classes |-> TRUE]
    /\ crowd_seen = [c \in Classes |-> FALSE]
    /\ all_maps = <<>>

\* if classes_p.size(0) == 0: continue
SkipsImage(im) == Len(im.classes_p) = 0

\* One iteration of the loop over the data loader.
EvaluateImage ==
    /\ pc = "loop"
    /\ img_count < MaxImages
    /\ \E im \in RunImages :
          /\ ap_data' = IF SkipsImage(im) THEN ap_data ELSE prep_metrics(ap_data, im)
          /\ gt_seen' = [c \in Classes |-> gt_seen[c] + num_gt_per_class(im, c)]
          /\ conf_ordered' = [c \in Classes |-> conf_ordered[c] /\ ConfOrdered(im, c)]
          /\ crowd_seen' = [c \in Classes |-> crowd_seen[c] \/ HasCrowd(im, c)]
    /\ img_count' = img_count + 1
    /\ UNCHANGED <<obj, ap_ret, img, log, all_maps, pc>>

\* The data loader is exhausted: calc_map(ap_data, cfg).
CalcMap ==
    /\ pc = "loop"
    /\ all_maps' = calc_map(ap_data)
    /\ ap_data' = calc_map_grid(ap_data)
    /\ pc' = "done"
    /\ UNCHANGED <<obj, ap_ret, img, log, img_count, gt_seen, conf_ordered,
                   crowd_seen>>

Next == EvaluateImage \/ CalcMap

Spec == Init /\ [][Next]_vars

(***************************************************************************)
(* Properties of APDataObject (SpecAP).                                    *)
(***************************************************************************)
AllTrue(o) == \A k \in 1..Len(o.data_points) : o.data_points[k][2]
AllFalse(o) == \A k \in 1..Len(o.data_points) : ~o.data_points[k][2]

\* C4: whatever records an accumulator holds, while its num_gt_positives is 0
\* get_ap returns exactly 0; and once a record was pushed is_empty() is false,
\* so calc_map does not skip the bucket.
C4_ZeroGtPositivesGivesZero ==
    obj.num_gt_positives = 0 =>
        /\ (ap_ret # NoValue => ap_ret = Zero)
        /\ (Len(obj.data_points) >= 1 => ~is_empty(obj))

\* get_ap has returned on an accumulator of add_gt_positives(0) and several
\* false records.
C4_Witness ==
    /\ obj.num_gt_positives = 0
    /\ Len(obj.data_points) >= 2
    /\ AllFalse(obj)
    /\ ap_ret = Zero
    /\ ~is_empty(obj)

\* C5: when every pushed record is true and num_gt_positives is the number of
\* records (at least one), get_ap returns exactly 1.
C5_PerfectDetectorGivesOne ==
    ( /\ ap_ret # NoValue
      /\ Len(obj.data_points) >= 1
      /\ AllTrue(obj)
      /\ obj.num_gt_positives = Len(obj.data_points) )
        => ap_ret = One

\* get_ap has returned 1 on three true records, two of them tied.
C5_Witness ==
    /\ ap_ret = One
    /\ Len(obj.data_points) = 3
    /\ AllTrue(obj)
    /\ obj.num_gt_positives = 3
    /\ obj.data_points[1][1] > obj.data_points[2][1]
    /\ obj.data_points[2][1] = obj.data_points[3][1]

(***************************************************************************)
(* Properties of one prep_metrics call (SpecMatch).  The definitions below *)
(* read the arguments of the call directly: the normal instances are the   *)
(* entries of the ground-truth list before the last num_crowd ones.        *)
(***************************************************************************)
NormalIdx == 1..(Len(img.gt_classes) - img.num_crowd)
CrowdIdx == (Len(img.gt_classes) - img.num_crowd + 1)..Len(img.gt_classes)
IoU(iou_type, i, g) == img.overlap[i][g][IF iou_type = "box" THEN 1 ELSE 2]

\* The instances marked used before the n-th handled prediction of a bucket:
\* those the earlier true positives matched.
UsedBefore(lg, n) == {lg[m].match : m \in {m \in 1..(n - 1) : lg[m].outcome = "tp"}}

\* The unused normal instances of class c the n-th handled prediction can take.
Candidates(lg, n, c) ==
    {g \in NormalIdx : img.gt_classes[g] = c /\ g \notin UsedBefore(lg, n)}

\* The position in data_points of the record of the n-th handled prediction.
RecordPos(lg, n) == Cardinality({m \in 1..n : lg[m].outcome # "crowd"})

QualifyingCrowd(iou_type, thr, c, i) ==
    \E g \in CrowdIdx : img.gt_classes[g] = c /\ IoU(iou_type, i, g) > thr

\* The call handled every prediction of class c once, in iteration order,
\* with the used flags the earlier matches left, and pushed one record for
\* each prediction it did not drop.
\* (Part of C1, C2 and C9: it ties the history to the accumulators.)
HistoryFaithful(iou_type, t, c) ==
    LET lg == log[iou_type][t][c]
        dp == ap_data[iou_type][t][c].data_points
        mine == {i \in 1..Len(img.classes_p) : img.classes_p[i] = c}
    IN /\ Len(lg) = Cardinality(mine)
       /\ \A n \in 1..Len(lg) :
             /\ lg[n].i \in mine
             /\ Cardinality({i \in mine : i < lg[n].i}) = n - 1
             /\ \A g \in NormalIdx : lg[n].gt_used[g] <=> g \in UsedBefore(lg, n)
       /\ Len(dp) = Cardinality({n \in 1..Len(lg) : lg[n].outcome # "crowd"})

\* The same call without prediction i.
WithoutPrediction(i) ==
    LET keep == [k \in 1..(Len(img.classes_p) - 1) |-> IF k < i THEN k ELSE k + 1]
    IN [img EXCEPT !.classes_p = [k \in DOMAIN keep |-> img.classes_p[keep[k]]],
                   !.confs_p = [k \in DOMAIN keep |-> img.confs_p[keep[k]]],
                   !.overlap = [k \in DOMAIN keep |-> img.overlap[keep[k]]]]

C1_Bucket(iou_type, t, c) ==
    LET lg == log[iou_type][t][c]
        dp == ap_data[iou_type][t][c].data_points
        thr == iou_thresholds[t]
    IN /\ HistoryFaithful(iou_type, t, c)
       /\ \A n \in 1..Len(lg) :
             LET i == lg[n].i
                 absent == Bucket(WithoutPrediction(i), iou_type, t, c,
                                  APDataObject).ap_obj.data_points
             IN (\A g \in Candidates(lg, n, c) : IoU(iou_type, i, g) <= thr) =>
                  IF QualifyingCrowd(iou_type, thr, c, i)
                  THEN /\ lg[n].outcome = "crowd"
                       /\ Len(dp) = Len(absent)
                  ELSE /\ lg[n].outcome = "fp"
                       /\ dp[RecordPos(lg, n)] = <<img.confs_p[i], FALSE>>
                       /\ Len(dp) = Len(absent) + 1

\* C1: a prediction without an unused normal match whose IoU with a same-class
\* crowd instance exceeds the threshold is not pushed (the bucket holds as
\* many records as if the prediction were absent); without such a crowd
\* instance exactly one record (confidence, False) is pushed for it.
C1_CrowdSuppression == pc = "returned" =>
        \A iou_type \in IouTypes, t \in ThresholdIdx, c \in Classes :
            C1_Bucket(iou_type, t, c)

\* A bucket where the first prediction took the only normal instance and the
\* second, overlapping a crowd instance of its class, was dropped, while at
\* the highest threshold the same prediction was pushed as a false positive.
C1_Witness ==
    /\ pc = "returned"
    /\ \E iou_type \in IouTypes, c \in Classes :
          LET lg == log[iou_type][1][c]
          IN /\ Len(lg) = 2
             /\ lg[1].outcome = "tp"
             /\ lg[2].outcome = "crowd"
             /\ Len(ap_data[iou_type][1][c].data_points) = 1
             /\ log[iou_type][Len(iou_thresholds)][c][2].outcome = "fp"

C2_Bucket(iou_type, t, c) ==
    LET lg == log[iou_type][t][c]
        dp == ap_data[iou_type][t][c].data_points
        thr == iou_thresholds[t]
        normal == {g \in NormalIdx : img.gt_classes[g] = c}
    IN /\ HistoryFaithful(iou_type, t, c)
       /\ \A n1, n2 \in 1..Len(lg) :
             (n1 # n2 /\ lg[n1].outcome = "tp" /\ lg[n2].outcome = "tp")
                => lg[n1].match # lg[n2].match
       /\ \A n1, n2 \in 1..Len(lg) : \A g \in normal :
             ( /\ n1 < n2
               /\ g \notin UsedBefore(lg, n1)
               /\ IoU(iou_type, lg[n1].i, g) > thr
               /\ IoU(iou_type, lg[n2].i, g) > thr
               /\ \A h \in normal \ {g} :
                     /\ IoU(iou_type, lg[n1].i, h) <= thr
                     /\ IoU(iou_type, lg[n2].i, h) <= thr )
             => /\ lg[n1].outcome = "tp" /\ lg[n1].match = g
                /\ dp[RecordPos(lg, n1)] = <<img.confs_p[lg[n1].i], TRUE>>
                /\ lg[n2].outcome # "tp"
                /\ ~QualifyingCrowd(iou_type, thr, c, lg[n2].i) =>
                      /\ lg[n2].outcome = "fp"
                      /\ dp[RecordPos(lg, n2)] = <<img.confs_p[lg[n2].i], FALSE>>

\* C2: in one bucket no normal instance is matched by two predictions; of two
\* predictions that exceed the threshold only against the same (still unused)
\* instance, the earlier is pushed as a true positive and the later, absent a
\* qualifying crowd overlap, as a false positive.
C2_OneMatchPerInstance == pc = "returned" =>
        \A iou_type \in IouTypes, t \in ThresholdIdx, c \in Classes :
            C2_Bucket(iou_type, t, c)

\* Two ground-truth instances of one class, two predictions that both overlap
\* the first of them only: the first is pushed true, the second false.
C2_Witness ==
    /\ pc = "returned"
    /\ \E c \in Classes :
          LET lg == log["box"][2][c]
          IN /\ img.num_crowd = 0
             /\ Len(img.gt_classes) = 2
             /\ img.gt_classes[1] = c /\ img.gt_classes[2] = c
             /\ Len(lg) = 2
             /\ IoU("box", 1, 1) = 90 /\ IoU("box", 2, 1) = 90
             /\ IoU("box", 1, 2) = 0 /\ IoU("box", 2, 2) = 0
             /\ img.confs_p[1] # img.confs_p[2]
             /\ ap_data["box"][2][c].data_points =
                    << <<img.confs_p[1], TRUE>>, <<img.confs_p[2], FALSE>> >>

C9_Bucket(iou_type, t, c) ==
    LET lg == log[iou_type][t][c]
        dp == ap_data[iou_type][t][c].data_points
        thr == iou_thresholds[t]
    IN /\ HistoryFaithful(iou_type, t, c)
       /\ \A n \in 1..Len(lg) :
             LET i == lg[n].i
                 cand == Candidates(lg, n, c)
             IN /\ lg[n].outcome = "tp" <=> \E g \in cand : IoU(iou_type, i, g) > thr
                /\ lg[n].outcome = "tp" <=>
                      (lg[n].outcome # "crowd" /\ dp[RecordPos(lg, n)][2])
                /\ lg[n].outcome = "tp" =>
                      /\ lg[n].match \in cand
                      /\ \A g \in cand :
                            /\ IoU(iou_type, i, g) <= IoU(iou_type, i, lg[n].match)
                            /\ IoU(iou_type, i, g) = IoU(iou_type, i, lg[n].match)
                                  => g >= lg[n].match

\* C9: a prediction is pushed as a true positive iff, when it is handled, some
\* unused normal instance of its class has IoU strictly above the threshold;
\* the instance it marks has the maximum IoU among the unused instances of the
\* class and, among those tied at the maximum, the lowest index.
C9_StrictBestMatch == pc = "returned" =>
        \A iou_type \in IouTypes, t \in ThresholdIdx, c \in Classes :
            C9_Bucket(iou_type, t, c)

\* One prediction tied at IoU 0.9 with two instances of its class: it takes
\* the first at threshold 0.55, and at threshold 0.9, which its IoU equals, it
\* is pushed as a false positive.
C9_Witness ==
    /\ pc = "returned"
    /\ img.num_crowd = 0
    /\ Len(img.gt_classes) = 2
    /\ Len(img.classes_p) = 1
    /\ \E c \in Classes :
          /\ img.gt_classes[1] = c /\ img.gt_classes[2] = c
          /\ img.classes_p[1] = c
          /\ IoU("box", 1, 1) = 90 /\ IoU("box", 1, 2) = 90
          /\ log["box"][2][c][1].outcome = "tp"
          /\ log["box"][2][c][1].match = 1
          /\ iou_thresholds[9] = 90
          /\ log["box"][9][c][1].outcome = "fp"
          /\ ap_data["box"][9][c].data_points[1] = <<img.confs_p[1], FALSE>>

(***************************************************************************)
(* The call with num_crowd past the list (SpecMalformed).                  *)
(***************************************************************************)
\* C8: a call whose num_crowd exceeds the length of the ground-truth list
\* fails with an error and leaves every accumulator as it was.
C8_MalformedCallFails ==
    pc # "call" => (pc = "raised" /\ ap_data = NewApData)

(***************************************************************************)
(* Properties of the evaluation run (Spec).                                *)
(***************************************************************************)
\* C3: every accumulator of class c counts the normal ground-truth instances
\* of class c of all the images the run has been given, the images without
\* predictions included.
C3_GtPositivesCountEveryImage ==
    \A iou_type \in IouTypes, t \in ThresholdIdx, c \in Classes :
        ap_data[iou_type][t][c].num_gt_positives = gt_seen[c]

NumTruePositives(o) == Cardinality({k \in 1..Len(o.data_points) : o.data_points[k][2]})

Gathered(iou_type, t) ==
    {c \in Classes :
        \/ Len(ap_data[iou_type][t][c].data_points) > 0
        \/ ap_data[iou_type][t][c].num_gt_positives > 0}

RECURSIVE SumAP(_, _, _)
SumAP(iou_type, t, cs) ==
    IF cs = {} THEN Zero
    ELSE LET c == CHOOSE c \in cs : TRUE
         IN RAdd(get_ap_value(ap_data[iou_type][t][c]), SumAP(iou_type, t, cs \ {c}))

\* 100 times the arithmetic mean of the AP of the gathered classes, 0 if none.
ExpectedMap(iou_type, t) ==
    LET cs == Gathered(iou_type, t)
    IN IF cs = {} THEN Zero
       ELSE RMulInt(RDivInt(SumAP(iou_type, t, cs), Cardinality(cs)), 100)

RECURSIVE SumOverThresholds(_, _)
SumOverThresholds(iou_type, t) ==
    IF t = 0 THEN Zero
    ELSE RAdd(all_maps[iou_type].by_threshold[iou_thresholds[t]],
              SumOverThresholds(iou_type, t - 1))

\* C6: per type and threshold calc_map reports 100 times the mean AP of the
\* classes whose accumulator is not empty (0 if there is none), and under
\* 'all' the mean of the per-threshold values, one term per threshold.
C6_MeanOfMeans ==
    pc = "done" =>
        \A iou_type \in IouTypes :
            /\ DOMAIN all_maps[iou_type].by_threshold
                  = {iou_thresholds[t] : t \in ThresholdIdx}
            /\ \A t \in ThresholdIdx :
                  all_maps[iou_type].by_threshold[iou_thresholds[t]]
                      = ExpectedMap(iou_type, t)
            /\ all_maps[iou_type].all
                  = RDivInt(SumOverThresholds(iou_type, Len(iou_thresholds)),
                            Len(iou_thresholds))

\* calc_map has reduced a grid in which, at the first threshold, both classes
\* are gathered with different AP, and whose per-threshold values differ, so
\* that 'all' lies strictly between 0 and 100.
C6_Witness ==
    /\ pc = "done"
    /\ Gathered("box", 1) = Classes
    /\ get_ap_value(ap_data["box"][1][0]) # get_ap_value(ap_data["box"][1][1])
    /\ all_maps["box"].by_threshold[50] # all_maps["box"].by_threshold[55]
    /\ RGt(all_maps["box"].all, Zero)
    /\ RGt(<<100, 1>>, all_maps["box"].all)

APNotAbove(iou_type, c, lo, hi) ==
    RLeq(get_ap_value(ap_data[iou_type][hi][c]), get_ap_value(ap_data[iou_type][lo][c]))

====
